---- MODULE Spec2Model ----
(***************************************************************************)
(* State-machine model of the DataCite client wrappers of src/client.py:   *)
(* DataciteRESTAPIClient (create_or_update_doi, delete_doi) and            *)
(* DataciteUsageReportsAPIClient (constructor, create_or_update_report).   *)
(* The HTTP transport (the `requests` library), the remote server and the  *)
(* file system are the environment: every request the code issues is       *)
(* appended to `sent`, and the answer of the environment is chosen         *)
(* nondeterministically when the request returns.  `retrieve` is absent    *)
(* from client.py and is modelled from the written specification.          *)
(***************************************************************************)
EXTENDS Integers, Sequences, FiniteSets, TLC

\* ---------------------------------------------------------------- bounds
\* Number of operations (constructor calls and method calls) in one run.
MaxCalls == 4

\* ------------------------------------------------------ program constants
\* self.maximum_attempts_on_failure
MaximumAttemptsOnFailure == 10

\* ------------------------------------------------------------ input sets
\* Python's None.
None == "<None>"

BaseUrls == {"https://api.datacite.org", "https://api.test.datacite.org"}
Payloads == {"payload-A", "payload-B"}
Dois == {"10.5072/a", "10.5072/b"}
Bearers == {None, "", "jwt"}
Uuids == {None, "", "uuid-1", "uuid-2"}
\* Paths handed to create_or_update_report; only those in Files can be opened.
Filepaths == {"report.json", "absent.json"}
Files == {"report.json"}

\* Status codes the server may answer with.
Statuses == {200, 201, 304, 404, 422, 500}
\* requests.exceptions.RequestException subclasses that are not HTTPError:
\* the call raised before any response was received.
TransportErrors == {"ConnectionError", "Timeout"}

\* --------------------------------------------------------- pure helpers
\* Python truthiness of a str-or-None value: `not x`.
Falsy(x) == x = None \/ x = ""

\* Response.raise_for_status(): raises HTTPError for 4xx and 5xx.
\* Faulty variant: only 200 counts as success.
RaisesForStatus_m(status) == status # 200
RaisesForStatus(status) == status >= 400 /\ status < 600

\* `response.status_code == 422` in the HTTPError handler.
\* Faulty variant: every error status falls back to the update.
IsConflict_m(status) == status >= 400
IsConflict(status) == status = 422

\* '{}/dois'.format(self.url): a URL is the tuple of its path segments.
DoisUrl(url) == <<url, "dois">>

\* '{}/dois/{}'.format(self.url, doi)
\* Faulty variant: the doi is left out of the path.
DoiUrl_m(url, doi) == <<url, "dois">>
DoiUrl(url, doi) == <<url, "dois", doi>>

\* `if not self.bearer` in DataciteUsageReportsAPIClient.__init__
\* Faulty variant: `if self.bearer is None`, which lets '' through.
BearerMissing_m(bearer) == bearer = None
BearerMissing(bearer) == Falsy(bearer)

\* `if not uuid` in create_or_update_report
\* Faulty variant: `if uuid is None`, which lets '' through.
UuidMissing_m(uuid) == uuid = None
UuidMissing(uuid) == Falsy(uuid)

\* HTTPBasicAuth(self.username, self.password)
HTTPBasicAuth(username, password) == <<"Basic", username, password>>

\* headers of DataciteRESTAPIClient
RestHeaders == [ContentType |-> "application/vnd.api+json"]

\* headers of DataciteUsageReportsAPIClient; f'Bearer {self.bearer}'
ReportsHeaders(bearer) ==
    [ContentType |-> "application/gzip",
     ContentEncoding |-> "gzip",
     Accept |-> "gzip",
     Authorization |-> <<"Bearer", bearer>>]

\* One call of requests.post / requests.put as the transport sees it.
Request(method, url, data, headers, auth) ==
    [method |-> method, url |-> url, data |-> data,
     headers |-> headers, auth |-> auth]

\* The local `response`: None, or the Response object answering request
\* number `request` of `sent`.
NoneResponse == [status |-> 0, request |-> 0]
Response(status, request) == [status |-> status, request |-> request]

\* What the caller gets: nothing yet, a returned value, or an exception.
NoOutcome == [kind |-> "none", exc |-> None, value |-> <<>>]
Returned(value) == [kind |-> "returned", exc |-> None, value |-> value]
Raised(exc) == [kind |-> "raised", exc |-> exc, value |-> <<>>]

\* The scripted reports endpoint: answers 500 to the attempts before
\* `firstOk` and 200 from then on; firstOk = 0 answers 500 to every attempt.
ServerScript(firstOk) ==
    [i \in 1..MaximumAttemptsOnFailure |->
        IF firstOk = 0 \/ i < firstOk THEN 500 ELSE 200]

\* A reports endpoint that cannot be reached for the attempts before
\* `firstOk` (the call raises a transport error, written as status 0: no
\* response) and answers 200 from then on.
UnreachableScript(firstOk) ==
    [i \in 1..MaximumAttemptsOnFailure |-> IF i < firstOk THEN 0 ELSE 200]

\* The behaviours of the reports endpoint a submission may meet.
ServerScripts ==
    {ServerScript(k) : k \in 0..MaximumAttemptsOnFailure}
        \cup {UnreachableScript(k) : k \in 2..3}

\* Names bound at module level in client.py (its imports and its two
\* classes, and the exception classes `from .exceptions import *` brings).
\* Evaluating any other free name raises NameError.
ModuleNames ==
    {"io", "os", "gzip", "json", "time", "requests", "HTTPBasicAuth",
     "RequestException", "DataciteRESTAPIClient",
     "DataciteUsageReportsAPIClient", "DataciteAPIAuthenticationError",
     "DataciteCompressedReportUUIDMissingError"}

\* ------------------------------------------------------------------ state
VARIABLES
    restClient,     \* the DataciteRESTAPIClient instance
    reportsClient,  \* the DataciteUsageReportsAPIClient instance, if any
    pc,             \* "idle", or the request the running call waits on
    op,             \* the operation last started
    args,           \* its arguments
    response,       \* local `response` of the running call
    created,        \* local `created`
    updated,        \* local `updated`
    deleted,        \* local `deleted`
    sent,           \* requests handed to the transport by this call
    received,       \* what the transport answered, one entry per request
    opened,         \* files opened by this call
    reportsServer,  \* script of the reports endpoint for this call
    slept,          \* seconds this call spent in time.sleep
    outcome,        \* what the call gave back to its caller
    calls           \* operations started so far

vars == <<restClient, reportsClient, pc, op, args, response, created,
          updated, deleted, sent, received, opened, reportsServer,
          slept, outcome, calls>>

\* DataciteRESTAPIClient.__init__
NewRestClient(url, username, password) ==
    [url |-> url, headers |-> RestHeaders, action |-> None,
     username |-> username, password |-> password]

\* No DataciteUsageReportsAPIClient has been constructed.
NoReportsClient ==
    [live |-> FALSE, url |-> None, bearer |-> None,
     headers |-> ReportsHeaders(None), action |-> None,
     maximum_attempts_on_failure |-> 0, uuid |-> None]

\* DataciteUsageReportsAPIClient.__init__ past the bearer check
NewReportsClient(url, bearer) ==
    [live |-> TRUE, url |-> url, bearer |-> bearer,
     headers |-> ReportsHeaders(bearer), action |-> None,
     maximum_attempts_on_failure |-> MaximumAttemptsOnFailure,
     uuid |-> None]

Init ==
    /\ \E url \in BaseUrls : restClient = NewRestClient(url, "user", "secret")
    /\ reportsClient = NoReportsClient
    /\ pc = "idle"
    /\ op = "none"
    /\ args = <<>>
    /\ response = NoneResponse
    /\ created = FALSE
    /\ updated = FALSE
    /\ deleted = FALSE
    /\ sent = <<>>
    /\ received = <<>>
    /\ opened = <<>>
    /\ reportsServer = <<>>
    /\ slept = 0
    /\ outcome = NoOutcome
    /\ calls = 0

\* A caller may start an operation: nothing is running, budget left.
CanCall == pc = "idle" /\ calls < MaxCalls

\* What every operation resets when it starts.
Enter(name, arguments) ==
    /\ op' = name
    /\ args' = arguments
    /\ calls' = calls + 1

\* ------------------------------------------------ DataciteRESTAPIClient
\* create_or_update_doi up to the point where requests.post is called.
create_or_update_doi(data, doi) ==
    /\ CanCall
    /\ Enter("create_or_update_doi", [data |-> data, doi |-> doi])
    /\ slept' = 0
    /\ restClient' = [restClient EXCEPT !.action = "create_doi"]
    /\ response' = NoneResponse
    /\ created' = FALSE
    /\ updated' = FALSE
    /\ sent' = <<Request("POST", DoisUrl(restClient.url), data,
                         restClient.headers,
                         HTTPBasicAuth(restClient.username,
                                       restClient.password))>>
    /\ received' = <<>>
    /\ opened' = <<>>
    /\ reportsServer' = <<>>
    /\ pc' = "post"
    /\ outcome' = NoOutcome
    /\ UNCHANGED <<reportsClient, deleted>>

\* `created` once the try block is left: `created = True` is reached only
\* when raise_for_status() did not raise.
\* Faulty variant: `created = True` placed before raise_for_status().
CreatedAfterPost_m(status) == TRUE
CreatedAfterPost(status) == ~RaisesForStatus(status)

\* requests.post returned a response: raise_for_status(), then either the
\* rest of the try block and the return, or the HTTPError handler, which
\* calls requests.put on a 422 and otherwise falls through to the return.
post_returns ==
    /\ pc = "post"
    /\ \E status \in Statuses :
        /\ response' = Response(status, 1)
        /\ received' = Append(received, [status |-> status, error |-> None])
        /\ created' = CreatedAfterPost(status)
        /\ IF RaisesForStatus(status) /\ IsConflict(status)
           THEN /\ sent' = Append(sent,
                       Request("PUT", DoiUrl(restClient.url, args.doi),
                               args.data, restClient.headers,
                               HTTPBasicAuth(restClient.username,
                                             restClient.password)))
                /\ pc' = "put"
                /\ outcome' = outcome
           ELSE /\ sent' = sent
                /\ pc' = "idle"
                /\ outcome' = Returned(<<created', updated, response'>>)
    /\ UNCHANGED <<restClient, reportsClient, op, args, updated, deleted,
                   opened, reportsServer, slept, calls>>

\* requests.post raised without a response (connection error, timeout):
\* not an HTTPError, so no handler of create_or_update_doi catches it.
post_fails ==
    /\ pc = "post"
    /\ \E error \in TransportErrors :
        /\ received' = Append(received, [status |-> 0, error |-> error])
        /\ outcome' = Raised(error)
    /\ pc' = "idle"
    /\ UNCHANGED <<restClient, reportsClient, op, args, response, created,
                   updated, deleted, sent, opened, reportsServer, slept, calls>>

\* Faulty variant: the result of requests.put is not assigned to `response`,
\* so the POST's 422 response is checked and returned.
put_returns_m ==
    /\ pc = "put"
    /\ \E status \in Statuses :
        /\ received' = Append(received, [status |-> status, error |-> None])
        /\ outcome' = Raised("HTTPError")
    /\ pc' = "idle"
    /\ UNCHANGED <<restClient, reportsClient, op, args, response, created,
                   updated, deleted, sent, opened, reportsServer, slept, calls>>

\* requests.put returned a response inside the HTTPError handler:
\* raise_for_status() there is not guarded by any try, so an error status
\* leaves create_or_update_doi as an HTTPError.
put_returns ==
    /\ pc = "put"
    /\ \E status \in Statuses :
        /\ response' = Response(status, 2)
        /\ received' = Append(received, [status |-> status, error |-> None])
        /\ IF RaisesForStatus(status)
           THEN /\ updated' = updated
                /\ outcome' = Raised("HTTPError")
           ELSE /\ updated' = TRUE
                /\ outcome' = Returned(<<created, updated', response'>>)
    /\ pc' = "idle"
    /\ UNCHANGED <<restClient, reportsClient, op, args, created, deleted,
                   sent, opened, reportsServer, slept, calls>>

\* requests.put raised without a response.
put_fails ==
    /\ pc = "put"
    /\ \E error \in TransportErrors :
        /\ received' = Append(received, [status |-> 0, error |-> error])
        /\ outcome' = Raised(error)
    /\ pc' = "idle"
    /\ UNCHANGED <<restClient, reportsClient, op, args, response, created,
                   updated, deleted, sent, opened, reportsServer, slept, calls>>

\* Faulty variant: `headers` is made to exist by assigning the instance's
\* headers a per-call value.
delete_doi_m(doi) ==
    /\ CanCall
    /\ Enter("delete_doi", [doi |-> doi])
    /\ slept' = 0
    /\ restClient' = [restClient EXCEPT
                         !.action = "delete_doi",
                         !.headers = [ContentType |-> "application/json"]]
    /\ response' = NoneResponse
    /\ deleted' = FALSE
    /\ sent' = <<>>
    /\ received' = <<>>
    /\ opened' = <<>>
    /\ reportsServer' = <<>>
    /\ outcome' = Raised("NameError")
    /\ pc' = "idle"
    /\ UNCHANGED <<reportsClient, created, updated>>

\* delete_doi: the keyword argument `headers=headers` names a variable that
\* is bound neither in the method nor in the module, so evaluating the
\* arguments of requests.delete raises NameError inside the try block; the
\* handler catches HTTPError only, and requests.delete is never called.
delete_doi(doi) ==
    /\ CanCall
    /\ Enter("delete_doi", [doi |-> doi])
    /\ slept' = 0
    /\ restClient' = [restClient EXCEPT !.action = "delete_doi"]
    /\ response' = NoneResponse
    /\ deleted' = FALSE
    /\ "headers" \notin ModuleNames
    /\ sent' = <<>>
    /\ received' = <<>>
    /\ opened' = <<>>
    /\ reportsServer' = <<>>
    /\ outcome' = Raised("NameError")
    /\ pc' = "idle"
    /\ UNCHANGED <<reportsClient, created, updated>>

\* retrieve (not in client.py; from the specification's `retrieve(id)`): one
\* GET to {base}/dois/{id} with the client's headers and credentials.
retrieve(doi) ==
    /\ CanCall
    /\ Enter("retrieve", [doi |-> doi])
    /\ slept' = 0
    /\ response' = NoneResponse
    /\ sent' = <<Request("GET", DoiUrl(restClient.url, doi), None,
                         restClient.headers,
                         HTTPBasicAuth(restClient.username,
                                       restClient.password))>>
    /\ received' = <<>>
    /\ opened' = <<>>
    /\ reportsServer' = <<>>
    /\ pc' = "get"
    /\ outcome' = NoOutcome
    /\ UNCHANGED <<restClient, reportsClient, created, updated, deleted>>

\* Faulty variant: the response is returned whatever its status.
get_returns_m ==
    /\ pc = "get"
    /\ \E status \in Statuses :
        /\ response' = Response(status, 1)
        /\ received' = Append(received, [status |-> status, error |-> None])
        /\ outcome' = Returned(<<response'>>)
    /\ pc' = "idle"
    /\ UNCHANGED <<restClient, reportsClient, op, args, created, updated,
                   deleted, sent, opened, reportsServer, slept, calls>>

\* The GET returned a response: the response itself unless its status is an
\* HTTP error, in which case the failure is swallowed and None is returned.
get_returns ==
    /\ pc = "get"
    /\ \E status \in Statuses :
        /\ response' = Response(status, 1)
        /\ received' = Append(received, [status |-> status, error |-> None])
        /\ outcome' = IF RaisesForStatus(status)
                      THEN Returned(<<NoneResponse>>)
                      ELSE Returned(<<response'>>)
    /\ pc' = "idle"
    /\ UNCHANGED <<restClient, reportsClient, op, args, created, updated,
                   deleted, sent, opened, reportsServer, slept, calls>>

\* The GET raised without a response: reported as a failure with no
\* response, that is None.
get_fails ==
    /\ pc = "get"
    /\ \E error \in TransportErrors :
        /\ received' = Append(received, [status |-> 0, error |-> error])
        /\ outcome' = Returned(<<NoneResponse>>)
    /\ pc' = "idle"
    /\ UNCHANGED <<restClient, reportsClient, op, args, response, created,
                   updated, deleted, sent, opened, reportsServer, slept, calls>>

\* ---------------------------------------- DataciteUsageReportsAPIClient
\* The constructor: url and bearer are stored, then an absent bearer
\* raises and the caller never receives the instance.
DataciteUsageReportsAPIClient(url, bearer) ==
    /\ CanCall
    /\ ~reportsClient.live
    /\ Enter("__init__", [url |-> url, bearer |-> bearer])
    /\ slept' = 0
    /\ IF BearerMissing(bearer)
       THEN /\ reportsClient' = reportsClient
            /\ outcome' = Raised("DataciteAPIAuthenticationError")
       ELSE /\ reportsClient' = NewReportsClient(url, bearer)
            /\ outcome' = Returned(<<"DataciteUsageReportsAPIClient">>)
    /\ sent' = <<>>
    /\ received' = <<>>
    /\ opened' = <<>>
    /\ reportsServer' = <<>>
    /\ pc' = "idle"
    /\ UNCHANGED <<restClient, response, created, updated, deleted>>

\* Faulty variant: a missing uuid falls back to the uuid an earlier call
\* stored on the instance (`uuid = uuid or self.uuid`).
create_or_update_report_m(filepath, uuid) ==
    LET effective == IF UuidMissing(uuid) THEN reportsClient.uuid ELSE uuid
    IN  /\ CanCall
        /\ reportsClient.live
        /\ Enter("create_or_update_report",
                 [filepath |-> filepath, uuid |-> uuid])
        /\ slept' = 0
        /\ reportsServer' \in ServerScripts
        /\ IF UuidMissing(effective)
           THEN /\ reportsClient' = reportsClient
                /\ opened' = <<>>
                /\ outcome' =
                       Raised("DataciteCompressedReportUUIDMissingError")
           ELSE /\ reportsClient' =
                      [reportsClient EXCEPT
                          !.uuid = effective,
                          !.action = "send_compressed_usage_report"]
                /\ opened' = <<filepath>>
                /\ IF filepath \notin Files
                   THEN outcome' = Raised("FileNotFoundError")
                   ELSE outcome' = Raised("NameError")
        /\ sent' = <<>>
        /\ received' = <<>>
        /\ pc' = "idle"
        /\ UNCHANGED <<restClient, response, created, updated, deleted>>

\* create_or_update_report: the uuid check, the two attribute stores, the
\* read of the file, and the call of `retry_if_500`, a name that is bound
\* nowhere (the retry loop is the method retry_on_failure): NameError, before
\* any argument of the call is evaluated and before any request is made, so
\* the time.sleep(1) of the loop is never reached either.
create_or_update_report(filepath, uuid) ==
    /\ CanCall
    /\ reportsClient.live
    /\ Enter("create_or_update_report", [filepath |-> filepath, uuid |-> uuid])
    /\ slept' = 0
    /\ reportsServer' \in ServerScripts
    /\ IF UuidMissing(uuid)
       THEN /\ reportsClient' = reportsClient
            /\ opened' = <<>>
            /\ outcome' = Raised("DataciteCompressedReportUUIDMissingError")
       ELSE /\ reportsClient' =
                  [reportsClient EXCEPT
                      !.uuid = uuid,
                      !.action = "send_compressed_usage_report"]
            /\ opened' = <<filepath>>
            /\ IF filepath \notin Files
               THEN outcome' = Raised("FileNotFoundError")
               ELSE /\ "retry_if_500" \notin ModuleNames
                    /\ outcome' = Raised("NameError")
    /\ sent' = <<>>
    /\ received' = <<>>
    /\ pc' = "idle"
    /\ UNCHANGED <<restClient, response, created, updated, deleted>>

\* ------------------------------------------------------------ behaviours
Next ==
    \/ \E data \in Payloads, doi \in Dois : create_or_update_doi(data, doi)
    \/ post_returns
    \/ post_fails
    \/ put_returns
    \/ put_fails
    \/ \E doi \in Dois : delete_doi(doi)
    \/ \E doi \in Dois : retrieve(doi)
    \/ get_returns
    \/ get_fails
    \/ \E url \in BaseUrls, bearer \in Bearers :
           DataciteUsageReportsAPIClient(url, bearer)
    \/ \E filepath \in Filepaths, uuid \in Uuids :
           create_or_update_report(filepath, uuid)

Spec == Init /\ [][Next]_vars

\* ------------------------------------------------ vocabulary of the claims
\* A call of create_or_update_doi is the current (or last) operation.
InCreateOrUpdate == op = "create_or_update_doi"

\* The POST of this call has been answered with an HTTP response.
PostAnswered == InCreateOrUpdate /\ Len(received) >= 1 /\ received[1].error = None

\* The PUT of this call has been answered with an HTTP response.
PutAnswered == PostAnswered /\ Len(received) = 2 /\ received[2].error = None

\* HTTP error statuses and 2xx statuses, as the claims use the words.
ErrorStatus(status) == status \in 400..599
SuccessStatus(status) == status \in 200..299

\* Positions of the PUT requests among the requests of this call.
PutsSent == {i \in 1..Len(sent) : sent[i].method = "PUT"}

\* A submission with a present uuid and a readable file is the last operation.
InSubmission ==
    /\ op = "create_or_update_report"
    /\ pc = "idle"
    /\ args.uuid \notin {None, ""}
    /\ args.filepath \in Files

\* Index of the first attempt the scripted reports endpoint answers with a
\* non-error status; 0 when it answers every attempt with an error.
FirstOk ==
    LET ok == {i \in DOMAIN reportsServer :
                  reportsServer[i] # 0 /\ ~ErrorStatus(reportsServer[i])}
    IN  IF ok = {} THEN 0 ELSE CHOOSE i \in ok : \A j \in ok : i <= j

\* ------------------------------------------------------------------ claims
\* C1: a call of create_or_update_doi that returns yields a triple whose
\* flags are (true,false), (false,true) or (false,false): created and
\* updated are never both true, whatever the server answered.
C1_NeverCreatedAndUpdated ==
    (InCreateOrUpdate /\ outcome.kind = "returned") =>
        /\ Len(outcome.value) = 3
        /\ outcome.value[1] \in BOOLEAN
        /\ outcome.value[2] \in BOOLEAN
        /\ ~(outcome.value[1] /\ outcome.value[2])

\* C1 witness: a call went through POST -> 422 -> PUT and returned updated.
C1_Witness ==
    /\ InCreateOrUpdate
    /\ outcome.kind = "returned"
    /\ Len(sent) = 2
    /\ outcome.value[2] = TRUE

\* C2: once the POST of a call was answered 422, exactly one PUT has been
\* issued in that call, after the POST, to {base}/dois/{doi} for the doi of
\* this call, with the payload of the POST.
C2_ConflictIssuesOnePut ==
    (PostAnswered /\ received[1].status = 422) =>
        /\ Len(sent) = 2
        /\ sent[1].method = "POST"
        /\ sent[1].url = <<restClient.url, "dois">>
        /\ PutsSent = {2}
        /\ sent[2].url = <<restClient.url, "dois", args.doi>>
        /\ sent[2].data = sent[1].data
        /\ sent[2].data = args.data

\* C2 witness: the PUT that follows a 422 is in flight.
C2_Witness ==
    /\ pc = "put"
    /\ received[1].status = 422
    /\ Len(sent) = 2

\* C3: a POST answered with a success status ends the call: no PUT is
\* issued and the call returns (True, False, the POST's response).
C3_SuccessCreatesWithoutPut ==
    (PostAnswered /\ SuccessStatus(received[1].status)) =>
        /\ pc = "idle"
        /\ Len(sent) = 1
        /\ PutsSent = {}
        /\ outcome = Returned(<<TRUE, FALSE,
                                [status |-> received[1].status, request |-> 1]>>)

\* C3 witness: a call whose POST was answered 201 has returned.
C3_Witness ==
    /\ PostAnswered
    /\ received[1].status = 201
    /\ outcome.kind = "returned"

\* C4: a PUT is issued only after the POST of the same call was answered
\* 422; a POST answered with another HTTP error status ends the call with no
\* PUT and no second POST, returning (False, False, the POST's response).
C4_PutOnlyAfterConflict ==
    /\ (InCreateOrUpdate /\ PutsSent # {}) =>
           /\ PostAnswered
           /\ received[1].status = 422
           /\ sent[1].method = "POST"
           /\ \A i \in PutsSent : i > 1
    /\ (PostAnswered /\ ErrorStatus(received[1].status)
          /\ received[1].status # 422) =>
           /\ pc = "idle"
           /\ Len(sent) = 1
           /\ sent[1].method = "POST"
           /\ outcome = Returned(<<FALSE, FALSE,
                                   [status |-> received[1].status, request |-> 1]>>)

\* C4 witness: a call whose POST was answered 404 has ended.
C4_Witness ==
    /\ PostAnswered
    /\ received[1].status = 404
    /\ pc = "idle"
    /\ outcome.kind = "returned"

\* C5: when the POST was answered 422 and the PUT with an HTTP error status,
\* the call returns (False, False, the PUT's response) and does not raise.
C5_FailedUpdateIsReturned ==
    (PutAnswered /\ pc = "idle" /\ received[1].status = 422
       /\ ErrorStatus(received[2].status)) =>
        outcome = Returned(<<FALSE, FALSE,
                             [status |-> received[2].status, request |-> 2]>>)

\* C6: when the reports endpoint answers the first k-1 attempts with an
\* error status and attempt k (1 <= k <= 10) with a non-error status, the
\* submission returns the response of attempt k after exactly k requests.
C6_ReturnsFirstSuccessfulAttempt ==
    (InSubmission /\ FirstOk \in 1..MaximumAttemptsOnFailure
       /\ \A i \in 1..(FirstOk - 1) : ErrorStatus(reportsServer[i])) =>
        /\ Len(sent) = FirstOk
        /\ outcome = Returned(<<[status |-> reportsServer[FirstOk],
                                 request |-> FirstOk]>>)

\* C7: when the reports endpoint answers every attempt with an error status,
\* the submission makes exactly 10 requests and returns the response of the
\* tenth as a value; it does not raise.
C7_ReturnsTenthFailure ==
    (InSubmission /\ FirstOk = 0) =>
        /\ Len(sent) = 10
        /\ outcome.kind = "returned"
        /\ outcome.value = <<[status |-> reportsServer[10], request |-> 10]>>

\* C8: constructing DataciteUsageReportsAPIClient with a None or empty
\* bearer raises DataciteAPIAuthenticationError, leaves no live instance,
\* and issues no request.
C8_MissingBearerRaises ==
    (op = "__init__" /\ args.bearer \in {None, ""}) =>
        /\ outcome = Raised("DataciteAPIAuthenticationError")
        /\ ~reportsClient.live
        /\ sent = <<>>
        /\ received = <<>>

\* C8 witness: the constructor was called with the empty bearer and raised.
C8_Witness ==
    /\ op = "__init__"
    /\ args.bearer = ""
    /\ outcome.kind = "raised"

\* C9: a step that calls create_or_update_report with a None or empty uuid
\* raises DataciteCompressedReportUUIDMissingError (not the authentication
\* error), opens no file, issues no request, and leaves both clients'
\* stored attributes as they were.
C9_MissingUuidRaisesFirst ==
    [][(op' = "create_or_update_report" /\ calls' = calls + 1
          /\ args'.uuid \in {None, ""}) =>
            /\ outcome' = Raised("DataciteCompressedReportUUIDMissingError")
            /\ outcome'.exc # "DataciteAPIAuthenticationError"
            /\ opened' = <<>>
            /\ sent' = <<>>
            /\ reportsClient' = reportsClient
            /\ restClient' = restClient]_vars

\* C9 witness: after a submission that stored its uuid, a submission with the
\* empty uuid raised and the stored uuid is still the earlier one.
C9_Witness ==
    /\ op = "create_or_update_report"
    /\ args.uuid = ""
    /\ outcome.exc = "DataciteCompressedReportUUIDMissingError"
    /\ reportsClient.uuid = "uuid-1"
    /\ reportsClient.action = "send_compressed_usage_report"

\* C10: delete_doi issues exactly one DELETE to {base}/dois/{doi} and returns
\* (deleted, response) with deleted true exactly for a 2xx answer; it neither
\* raises nor retries.
C10_DeleteReturnsFlag ==
    (op = "delete_doi" /\ pc = "idle") =>
        /\ Len(sent) = 1
        /\ sent[1].method = "DELETE"
        /\ sent[1].url = <<restClient.url, "dois", args.doi>>
        /\ Len(received) = 1
        /\ outcome.kind = "returned"
        /\ outcome.value =
             <<SuccessStatus(received[1].status),
               [status |-> received[1].status, request |-> 1]>>

\* C11: when the POST of create_or_update_doi fails at transport level (no
\* response received), the call issues no further request and gives the
\* failure back as a returned triple with created and updated both false.
C11_TransportFailureIsReturned ==
    (InCreateOrUpdate /\ pc = "idle" /\ Len(received) >= 1
       /\ received[1].error \in TransportErrors) =>
        /\ Len(sent) = 1
        /\ Len(received) = 1
        /\ outcome.kind = "returned"
        /\ Len(outcome.value) = 3
        /\ outcome.value[1] = FALSE
        /\ outcome.value[2] = FALSE

\* Attempts of the scripted reports endpoint that raise a transport error.
UnreachableAttempts == {i \in DOMAIN reportsServer : reportsServer[i] = 0}

\* C12: in a submission, an attempt that raises a transport error counts as
\* one attempt of the budget and is followed by a retry: when the endpoint is
\* unreachable for the attempts before attempt k and answers attempt k, the
\* submission makes k requests and returns the answer of attempt k.
C12_TransportErrorIsRetried ==
    (InSubmission /\ UnreachableAttempts # {}) =>
        /\ Len(sent) = FirstOk
        /\ Len(sent) > Cardinality(UnreachableAttempts)
        /\ outcome = Returned(<<[status |-> reportsServer[FirstOk],
                                 request |-> FirstOk]>>)

\* C13: retrieve issues one GET to {base}/dois/{id}; it returns the response
\* object when the status is 2xx and None, without raising, when the status
\* is an HTTP error.
C13_RetrieveReturnsResponseOrNone ==
    (op = "retrieve" /\ pc = "idle" /\ received[1].error = None) =>
        /\ Len(sent) = 1
        /\ sent[1].method = "GET"
        /\ sent[1].url = <<restClient.url, "dois", args.doi>>
        /\ outcome.kind = "returned"
        /\ SuccessStatus(received[1].status) =>
               outcome.value = <<[status |-> received[1].status, request |-> 1]>>
        /\ ErrorStatus(received[1].status) =>
               outcome.value = <<[status |-> 0, request |-> 0]>>

\* C13 witness: a retrieve whose GET was answered 404 has returned None.
C13_Witness ==
    /\ op = "retrieve"
    /\ pc = "idle"
    /\ Len(received) = 1
    /\ received[1].status = 404
    /\ outcome.kind = "returned"

\* C14: when the POST was answered 422 and the PUT with a success status,
\* the call returns (False, True, the PUT's response), not the POST's 422.
C14_UpdateReturnsPutResponse ==
    (PutAnswered /\ pc = "idle" /\ received[1].status = 422
       /\ SuccessStatus(received[2].status)) =>
        /\ outcome = Returned(<<FALSE, TRUE,
                                [status |-> received[2].status, request |-> 2]>>)
        /\ outcome.value[3].status # 422

\* C14 witness: POST answered 422, PUT answered 200, and the call is over.
C14_Witness ==
    /\ PutAnswered
    /\ pc = "idle"
    /\ received[1].status = 422
    /\ received[2].status = 200

\* C15: a submission ends after at least 1 and at most 10 requests to the
\* transport, whatever the reports endpoint answers.
C15_BetweenOneAndTenAttempts ==
    InSubmission =>
        /\ outcome.kind \in {"returned", "raised"}
        /\ Len(sent) >= 1
        /\ Len(sent) <= 10

\* HTTP error answers received by this call.
FailedAttempts ==
    {i \in 1..Len(received) :
        received[i].error = None /\ ErrorStatus(received[i].status)}

\* C16: in a submission one 1-second sleep follows each attempt answered
\* with an HTTP error status and none follows a successful attempt: the
\* seconds slept equal the number of failed attempts, at most 10, and are
\* 10 when the endpoint fails all 10 attempts.
C16_OneSleepPerFailedAttempt ==
    (InSubmission /\ UnreachableAttempts = {}) =>
        /\ slept = Cardinality(FailedAttempts)
        /\ slept <= 10
        /\ (FirstOk = 0) => (Cardinality(FailedAttempts) = 10 /\ slept = 10)

\* C17: no step of any operation changes what construction stored: the base
\* URL, credentials and headers of the DOI client, and the base URL, bearer,
\* headers and maximum attempt count of a constructed reports client.
C17_ConstructionStateIsReadOnly ==
    [][/\ restClient'.url = restClient.url
       /\ restClient'.username = restClient.username
       /\ restClient'.password = restClient.password
       /\ restClient'.headers = restClient.headers
       /\ reportsClient.live =>
            /\ reportsClient'.live
            /\ reportsClient'.url = reportsClient.url
            /\ reportsClient'.bearer = reportsClient.bearer
            /\ reportsClient'.headers = reportsClient.headers
            /\ reportsClient'.maximum_attempts_on_failure =
                   reportsClient.maximum_attempts_on_failure]_vars

\* C17 witness: create_or_update_doi (it set `created`), delete_doi and
\* create_or_update_report have all run on their instances.
C17_Witness ==
    /\ pc = "idle"
    /\ created = TRUE
    /\ restClient.action = "delete_doi"
    /\ reportsClient.action = "send_compressed_usage_report"
    /\ reportsClient.maximum_attempts_on_failure = 10

\* The operations of client.py that C18 speaks of.
ClientMethods ==
    {"create_or_update_doi", "delete_doi", "create_or_update_report"}

\* The requests a call must have issued so far, computed from its arguments,
\* the answers it received and what construction stored, and from nothing an
\* earlier call left behind (`action`, `uuid`).
ExpectedSent ==
    IF op = "create_or_update_doi"
    THEN LET credentials ==
                 <<"Basic", restClient.username, restClient.password>>
             post == [method |-> "POST",
                      url |-> <<restClient.url, "dois">>,
                      data |-> args.data,
                      headers |-> restClient.headers,
                      auth |-> credentials]
             put == [method |-> "PUT",
                     url |-> <<restClient.url, "dois", args.doi>>,
                     data |-> args.data,
                     headers |-> restClient.headers,
                     auth |-> credentials]
         IN  IF Len(received) >= 1 /\ received[1].error = None
                  /\ received[1].status = 422
             THEN <<post, put>>
             ELSE <<post>>
    ELSE <<>>

\* The outcome of a finished create_or_update_doi, from the answers alone.
ExpectedDoiOutcome ==
    LET first == received[1]
    IN  IF first.error # None
        THEN [kind |-> "raised", exc |-> first.error, value |-> <<>>]
        ELSE IF ~ErrorStatus(first.status)
        THEN [kind |-> "returned", exc |-> None,
              value |-> <<TRUE, FALSE, [status |-> first.status, request |-> 1]>>]
        ELSE IF first.status # 422
        THEN [kind |-> "returned", exc |-> None,
              value |-> <<FALSE, FALSE, [status |-> first.status, request |-> 1]>>]
        ELSE IF received[2].error # None
        THEN [kind |-> "raised", exc |-> received[2].error, value |-> <<>>]
        ELSE IF ErrorStatus(received[2].status)
        THEN [kind |-> "raised", exc |-> "HTTPError", value |-> <<>>]
        ELSE [kind |-> "returned", exc |-> None,
              value |-> <<FALSE, TRUE,
                          [status |-> received[2].status, request |-> 2]>>]

\* The outcome of a finished call, from its arguments and answers alone.
ExpectedOutcome ==
    IF op = "create_or_update_doi" THEN ExpectedDoiOutcome
    ELSE IF op = "delete_doi"
    THEN [kind |-> "raised", exc |-> "NameError", value |-> <<>>]
    ELSE IF args.uuid \in {None, ""}
    THEN [kind |-> "raised",
          exc |-> "DataciteCompressedReportUUIDMissingError", value |-> <<>>]
    ELSE IF args.filepath \notin Files
    THEN [kind |-> "raised", exc |-> "FileNotFoundError", value |-> <<>>]
    ELSE [kind |-> "raised", exc |-> "NameError", value |-> <<>>]

====
